---- MODULE Spec2Model ----
(***************************************************************************)
(* The code execution sandbox of the PictoBlox backend (sandbox.py) and    *)
(* the /api/v1/execute endpoint that calls it (main.py, schemas.py,        *)
(* crud.py).                                                               *)
(*                                                                         *)
(* A call to execute_python_code or execute_in_docker is a small state     *)
(* machine: dispatch on the language, create the temporary script, write   *)
(* the code into it, spawn the interpreter, wait for it under a deadline,  *)
(* run the finally block, return.  The environment (file system, process   *)
(* table, the guest's own behaviour, the clock) is nondeterministic.       *)
(***************************************************************************)
EXTENDS Integers, Sequences, FiniteSets, TLC

VARIABLES
    pc,          \* per call: the position of the call in the code
    args,        \* per call: [func, code, language, timeout]
    inner,       \* per call: the executor function running the script
    clock,       \* per call: seconds of wall-clock time since the call began
    start_time,  \* per call: the clock value the executor function read at entry
    waited,      \* per call: seconds spent so far inside subprocess.run
    temp_file,   \* per call: the path of the temporary script
    cmd,         \* per call: the argv handed to the process that was spawned
    child,       \* per call: state and exit status of the spawned process
    faults,      \* per call: the exceptions raised so far, with the step of each
    pending,     \* per call: the return or raise that the finally block suspends
    outcome,     \* per call: what the caller gets, a result or an exception
    fs,          \* the temporary directory: path -> content, or Absent
    procs,       \* the process table: the processes that are running
    request,     \* per call: the HTTP request the endpoint is serving
    response,    \* per call: the HTTP response of the endpoint
    logs,        \* per call: the rows the endpoint added to execution_logs
    validated    \* the last verdict asked of validate_code_safety

callVars == <<pc, args, inner, clock, start_time, waited, temp_file, cmd,
              child, faults, pending, outcome>>
envVars  == <<fs, procs>>
httpVars == <<request, response, logs, validated>>
vars     == <<callVars, envVars, httpVars>>

(***************************************************************************)
(* Bounds of the model.                                                    *)
(***************************************************************************)
MaxTimeout  == 2   \* direct callers pass timeouts 1..MaxTimeout
MaxOverhead == 1   \* seconds a call may spend outside subprocess.run
MaxFragments == 2  \* pieces of code in a text given to the validator

(***************************************************************************)
(* Values.                                                                 *)
(***************************************************************************)
None   == "<None>"      \* Python's None
Absent == "<absent>"    \* a path that does not exist

Languages == {"python", "javascript", "ruby"}

\* Guest code bodies.  The second one holds a lone surrogate, which the
\* text-mode temporary file cannot encode.
Codes == {"print('out')", "'\\ud800'"}

Encodable(code) == code # "'\\ud800'"

\* What a guest can leave on its standard streams.  "\\xff" stands for
\* bytes that are not valid text in the locale's encoding.
Stdouts  == {"", "out", "\\xff"}
Stderrs  == {"", "err"}
\* 0: success, 1: unhandled error, -1: killed by signal 1 (SIGHUP),
\* as Popen.returncode reports it.
ReturnCodes == {0, 1, -1}

Decodable(text) == text # "\\xff"

\* Guest code whose behaviour under the python interpreter is spelled out.
HelloCode == "print('Hello, World!')\nfor i in range(5): print(i)"

ScenarioCodes == {HelloCode, "print('out')"}

\* Guest code that holds the pattern 'import os' of the validator's list.
FlaggedCode == "import os\nprint('out')"

\* print writes the text and a newline.
PrintLine(text) == text \o "\n"

\* for i in range(n): print(i), from i on
RECURSIVE PrintRange(_, _)
PrintRange(i, n) ==
    IF i >= n THEN "" ELSE PrintLine(ToString(i)) \o PrintRange(i + 1, n)

\* What `python path` leaves behind when the file at path holds script.
PythonRuns(script, path) ==
    CASE script = HelloCode ->
             [stdout |-> PrintLine("Hello, World!") \o PrintRange(0, 5),
              stderr |-> "", returncode |-> 0]
      [] script = "print('out')" ->
             [stdout |-> PrintLine("out"), stderr |-> "", returncode |-> 0]
      [] script = FlaggedCode ->
             [stdout |-> PrintLine("out"), stderr |-> "", returncode |-> 0]
      [] script = "" ->
             [stdout |-> "", stderr |-> "", returncode |-> 0]
      [] script = Absent ->
             [stdout |-> "",
              stderr |-> "python: can't open file '" \o path
                         \o "': [Errno 2] No such file or directory\n",
              returncode |-> 2]

\* The names tempfile can draw for a temporary file, and the paths they give.
Names == {"tmpq7x2k9ab"}

TempName(name, suffix) == "/tmp/" \o name \o suffix

Suffixes == {".py", ".js"}

Paths == {TempName(n, s) : n \in Names, s \in Suffixes}

\* A second name, for the runs that hold more than one script at a time.
SpareNames == {"tmpx0b3jm5d"}

\* The paths tempfile can give a script with the suffix, among those of the
\* temporary directory.
PathsWith(suffix) ==
    {TempName(n, suffix) : n \in Names \cup SpareNames} \cap DOMAIN fs

Exists(path) == path # None /\ fs[path] # Absent

(***************************************************************************)
(* Exceptions: a type and a message; str(e) is the message.                *)
(***************************************************************************)
Exc(type, msg) == [type |-> type, msg |-> msg]

NoExc == Exc("", "")

str(e) == e.msg

\* The base classes of each exception type, the type itself included.
Bases(type) ==
    CASE type = "FileNotFoundError" ->
             {"FileNotFoundError", "OSError", "Exception"}
      [] type = "PermissionError" ->
             {"PermissionError", "OSError", "Exception"}
      [] type = "OSError" -> {"OSError", "Exception"}
      [] type = "UnicodeEncodeError" ->
             {"UnicodeEncodeError", "ValueError", "Exception"}
      [] type = "UnicodeDecodeError" ->
             {"UnicodeDecodeError", "ValueError", "Exception"}
      [] type = "TimeoutExpired" ->
             {"TimeoutExpired", "SubprocessError", "Exception"}
      [] type = "MemoryError" -> {"MemoryError", "Exception"}
      [] OTHER -> {type}

IsInstance(e, class) == class \in Bases(e.type)

CreateErrors ==
    {Exc("FileNotFoundError", "[Errno 2] No usable temporary directory found")}

EncodeError ==
    Exc("UnicodeEncodeError",
        "'utf-8' codec can't encode character '\\ud800': surrogates not allowed")

WriteErrors == {Exc("OSError", "[Errno 28] No space left on device")}

SpawnErrors(program) ==
    {Exc("FileNotFoundError",
         "[Errno 2] No such file or directory: '" \o program \o "'"),
     Exc("PermissionError",
         "[Errno 13] Permission denied: '" \o program \o "'")}

DecodeError ==
    Exc("UnicodeDecodeError",
        "'utf-8' codec can't decode byte 0xff: invalid start byte")

TimeoutExpired == Exc("TimeoutExpired", "Command timed out")

\* capture_output=True buffers all the guest writes, without a limit;
\* str(MemoryError()) is the empty string.
CaptureErrors == {Exc("MemoryError", "")}

UnlinkErrors(path) ==
    {Exc("PermissionError", "[Errno 13] Permission denied: '" \o path \o "'")}

(***************************************************************************)
(* Results and completions.                                                *)
(***************************************************************************)
Result(output, error, execution_time, exit_code, success) ==
    [output |-> output, error |-> error, execution_time |-> execution_time,
     exit_code |-> exit_code, success |-> success]

NoResult == Result(None, None, 0, 0, FALSE)

\* How a function ends: it returns a value or raises an exception.
Returns(value) == [kind |-> "return", value |-> value, exc |-> NoExc]
Raises(e)      == [kind |-> "raise", value |-> NoResult, exc |-> e]
Nothing        == [kind |-> "none", value |-> NoResult, exc |-> NoExc]

(***************************************************************************)
(* The result records the three executor functions build.                  *)
(***************************************************************************)
\* The completion record with the return code reduced to 0 or 1.
CompletedExitFlag(stdout, stderr, returncode, execution_time) ==
    Result(IF stdout # "" THEN stdout ELSE None,
           IF stderr # "" THEN stderr ELSE None,
           execution_time, IF returncode = 0 THEN 0 ELSE 1, returncode = 0)

\* The completion record with the two streams taken for each other.
CompletedSwapped(stdout, stderr, returncode, execution_time) ==
    Result(IF stderr # "" THEN stderr ELSE None,
           IF stdout # "" THEN stdout ELSE None,
           execution_time, returncode, returncode = 0)

\* The completion record with stderr reported for a failed child only.
CompletedErrorOnFailure(stdout, stderr, returncode, execution_time) ==
    Result(IF stdout # "" THEN stdout ELSE None,
           IF returncode # 0 /\ stderr # "" THEN stderr ELSE None,
           execution_time, returncode, returncode = 0)

\* The completion record whose success asks for a silent stderr as well.
CompletedCleanExit(stdout, stderr, returncode, execution_time) ==
    Result(IF stdout # "" THEN stdout ELSE None,
           IF stderr # "" THEN stderr ELSE None,
           execution_time, returncode, returncode = 0 /\ stderr = "")

\* The child ran to completion inside subprocess.run.
Completed(stdout, stderr, returncode, execution_time) ==
    Result(IF stdout # "" THEN stdout ELSE None,
           IF stderr # "" THEN stderr ELSE None,
           execution_time, returncode, returncode = 0)

\* A timeout reported like any other failure.
TimedOutAsFailure(timeout) ==
    Result(None,
           "Execution timed out after " \o ToString(timeout) \o " seconds",
           timeout, 1, FALSE)

\* The timeout record without a duration.
TimedOutNoDuration(timeout) ==
    Result(None,
           "Execution timed out after " \o ToString(timeout) \o " seconds",
           0, -1, FALSE)

\* except subprocess.TimeoutExpired
TimedOut(timeout) ==
    Result(None,
           "Execution timed out after " \o ToString(timeout) \o " seconds",
           timeout, -1, FALSE)

\* except FileNotFoundError, with the function's fixed message
NotInstalled(message, execution_time) ==
    Result(None, message, execution_time, 1, FALSE)

\* The failure record without the elapsed time.
FailedAtOnce(e, execution_time) ==
    Result(None, str(e), 0, 1, FALSE)

\* except Exception as e
Failed(e, execution_time) ==
    Result(None, str(e), execution_time, 1, FALSE)

\* the else branch of the dispatcher
Unsupported(language) ==
    Result(None, "Unsupported language: " \o language, 0, 1, FALSE)

(***************************************************************************)
(* The except clauses of each executor function, in the order written: how *)
(* the function ends when its try block raises e.                          *)
(***************************************************************************)
_execute_python_safe_except(e, timeout, execution_time) ==
    IF IsInstance(e, "TimeoutExpired") THEN Returns(TimedOut(timeout))
    ELSE IF IsInstance(e, "Exception") THEN Returns(Failed(e, execution_time))
    ELSE Raises(e)

_execute_javascript_except(e, timeout, execution_time) ==
    IF IsInstance(e, "TimeoutExpired") THEN Returns(TimedOut(timeout))
    ELSE IF IsInstance(e, "FileNotFoundError")
         THEN Returns(NotInstalled("Node.js is not installed or not in PATH",
                                   execution_time))
    ELSE IF IsInstance(e, "Exception") THEN Returns(Failed(e, execution_time))
    ELSE Raises(e)

execute_in_docker_except(e, timeout, execution_time) ==
    IF IsInstance(e, "TimeoutExpired") THEN Returns(TimedOut(timeout))
    ELSE IF IsInstance(e, "FileNotFoundError")
         THEN Returns(NotInstalled("Docker is not installed or not in PATH",
                                   execution_time))
    ELSE Raises(e)

Except(fn, e, timeout, execution_time) ==
    CASE fn = "_execute_python_safe" ->
             _execute_python_safe_except(e, timeout, execution_time)
      [] fn = "_execute_javascript" ->
             _execute_javascript_except(e, timeout, execution_time)
      [] fn = "execute_in_docker" ->
             execute_in_docker_except(e, timeout, execution_time)

\* The suffix each function gives its temporary script.
Suffix(fn) ==
    CASE fn = "_execute_python_safe" -> ".py"
      [] fn = "_execute_javascript" -> ".js"
      [] fn = "execute_in_docker" -> ".py"

\* The argv each function hands to subprocess.run.
Command(fn, path) ==
    CASE fn = "_execute_python_safe" -> <<"python", path>>
      [] fn = "_execute_javascript" -> <<"node", path>>
      [] fn = "execute_in_docker" ->
             <<"docker", "run", "--rm", "--network", "none",
               "--memory", "128m", "--cpus", "0.5",
               "-v", path \o ":/code/script.py:ro",
               "python:3.9-slim", "python", "/code/script.py">>

\* A dispatcher whose last branch runs Python instead of refusing.
ExecutorElsePython(language) ==
    IF language = "javascript" THEN "_execute_javascript"
    ELSE "_execute_python_safe"

\* The dispatcher of execute_python_code: the executor function of a
\* language, None when the language is not supported.
Executor(language) ==
    IF language = "python" THEN "_execute_python_safe"
    ELSE IF language = "javascript" THEN "_execute_javascript"
    ELSE None

\* execute_python_code without its try: the exception goes on.
execute_python_code_reraise(e, execution_time) == Raises(e)

\* The except clause of execute_python_code around the dispatch.
execute_python_code_except(e, execution_time) ==
    IF IsInstance(e, "Exception") THEN Returns(Failed(e, execution_time))
    ELSE Raises(e)

\* How the call ends when its executor function raises e: execute_python_code
\* has a try around the dispatch, execute_in_docker is called directly.
Escapes(func, e, execution_time) ==
    IF func = "execute_python_code"
    THEN execute_python_code_except(e, execution_time)
    ELSE Raises(e)

(***************************************************************************)
(* validate_code_safety.  Text is a sequence of characters here, so that   *)
(* lower() and the substring test `in` are computed, not assumed.          *)
(***************************************************************************)
ascii_uppercase ==
    <<"A", "B", "C", "D", "E", "F", "G", "H", "I", "J", "K", "L", "M", "N",
      "O", "P", "Q", "R", "S", "T", "U", "V", "W", "X", "Y", "Z">>

ascii_lowercase ==
    <<"a", "b", "c", "d", "e", "f", "g", "h", "i", "j", "k", "l", "m", "n",
      "o", "p", "q", "r", "s", "t", "u", "v", "w", "x", "y", "z">>

\* str.lower() on one character and on a text
lower(ch) ==
    IF \E i \in 1..Len(ascii_uppercase) : ascii_uppercase[i] = ch
    THEN ascii_lowercase[CHOOSE i \in 1..Len(ascii_uppercase) :
                            ascii_uppercase[i] = ch]
    ELSE ch

Lower(text) == [i \in 1..Len(text) |-> lower(text[i])]

\* pattern in text
Contains(text, pattern) ==
    \E i \in 0..(Len(text) - Len(pattern)) :
        SubSeq(text, i + 1, i + Len(pattern)) = pattern

dangerous_patterns ==
    <<
        <<"i", "m", "p", "o", "r", "t", " ", "o", "s">>,
        <<"i", "m", "p", "o", "r", "t", " ", "s", "y", "s">>,
        <<"i", "m", "p", "o", "r", "t", " ", "s", "u", "b", "p", "r", "o",
          "c", "e", "s", "s">>,
        <<"i", "m", "p", "o", "r", "t", " ", "s", "h", "u", "t", "i", "l">>,
        <<"i", "m", "p", "o", "r", "t", " ", "s", "o", "c", "k", "e", "t">>,
        <<"_", "_", "i", "m", "p", "o", "r", "t", "_", "_">>,
        <<"e", "v", "a", "l", "(">>,
        <<"e", "x", "e", "c", "(">>,
        <<"o", "p", "e", "n", "(">>,
        <<"f", "i", "l", "e", "(">>,
        <<"i", "n", "p", "u", "t", "(">>,
        <<"r", "a", "w", "_", "i", "n", "p", "u", "t", "(">>
    >>

Detected ==
    <<"P", "o", "t", "e", "n", "t", "i", "a", "l", "l", "y", " ", "d", "a",
      "n", "g", "e", "r", "o", "u", "s", " ", "c", "o", "d", "e", " ", "p",
      "a", "t", "t", "e", "r", "n", " ", "d", "e", "t", "e", "c", "t", "e",
      "d", ":", " ">>

\* An Optional[str]: no text, or one.
NoText == << >>

Text(t) == <<t>>

\* The verdict without code.lower(): the patterns sought in the code as
\* written.
RECURSIVE ScanAsWritten(_, _)
ScanAsWritten(code, i) ==
    IF i > Len(dangerous_patterns)
    THEN [is_safe |-> TRUE, reason |-> NoText]
    ELSE IF Contains(code, Lower(dangerous_patterns[i]))
         THEN [is_safe |-> FALSE,
               reason |-> Text(Detected \o dangerous_patterns[i])]
         ELSE ScanAsWritten(code, i + 1)

validate_code_safety_as_written(code) == ScanAsWritten(code, 1)

\* for pattern in dangerous_patterns, from the i-th on: the first one
\* found ends the loop.
RECURSIVE Scan(_, _)
Scan(code_lower, i) ==
    IF i > Len(dangerous_patterns)
    THEN [is_safe |-> TRUE, reason |-> NoText]
    ELSE IF Contains(code_lower, Lower(dangerous_patterns[i]))
         THEN [is_safe |-> FALSE,
               reason |-> Text(Detected \o dangerous_patterns[i])]
         ELSE Scan(code_lower, i + 1)

validate_code_safety(code) == Scan(Lower(code), 1)

\* The characters of the codes that are run here.
Chars(code) ==
    CASE code = "print('out')" ->
             <<"p", "r", "i", "n", "t", "(", "'", "o", "u", "t", "'", ")">>
      [] code = FlaggedCode ->
             <<"i", "m", "p", "o", "r", "t", " ", "o", "s", "\n",
               "p", "r", "i", "n", "t", "(", "'", "o", "u", "t", "'", ")">>

(***************************************************************************)
(* State of one call and of the environment.                               *)
(***************************************************************************)
Callers == {1}

Funcs == {"execute_python_code", "execute_in_docker"}

NoArgs == [func |-> None, code |-> None, language |-> None, timeout |-> 0]

\* script: what the interpreter found at the script's path when it started.
NoChild == [state |-> "none", script |-> None, stdout |-> "", stderr |-> "",
            returncode |-> 0]

NoBody == [code |-> None, language |-> None,
           timeout |-> [given |-> FALSE, value |-> 0],
           project_id |-> [given |-> FALSE, value |-> 0]]

NoExecution == [code |-> None, language |-> None,
                project_id |-> [given |-> FALSE, value |-> 0], timeout |-> 0]

NoRequest == [user_id |-> 0, body |-> NoBody, execution |-> NoExecution]

\* detail: the fields of the body a 422 answer names as invalid.
NoResponse == [status |-> 0, body |-> NoResult, detail |-> {}]

\* Processes the call c spawned and that are still running: the
\* interpreter itself and what it forked.
Child(c) == [call |-> c, role |-> "child", pipes |-> TRUE]

\* The container that `docker run` has the daemon start.  It is a process
\* of the daemon, not of the client that subprocess.run spawned, and its
\* output reaches the capture pipes through the client only.
Container(c) == [call |-> c, role |-> "container", pipes |-> FALSE]

\* What Popen sets running: the program of the argv and, for docker run,
\* the container.
Started(c, argv) ==
    IF argv[1] = "docker" THEN {Child(c), Container(c)} ELSE {Child(c)}

\* A process whose call has returned: its pipes have no reader any more.
Orphan == [call |-> 0, role |-> "descendant", pipes |-> FALSE]

\* The container is a process of the daemon and no part of that tree.
Tree(c) == {p \in procs : p.call = c /\ p.role # "container"}

\* A descendant that inherited the capture pipes keeps them open.
PipesHeld(c) == \E p \in Tree(c) : p.role = "descendant" /\ p.pipes

Busy(c) == pc[c] \notin {"idle", "done"}

\* The exception e was raised by the step named at.
Fault(at, e) == [at |-> at, exc |-> e]

\* subprocess.run of the call c ended by TimeoutExpired.
Expired(c) ==
    \E i \in 1..Len(faults[c]) : faults[c][i].exc.type = "TimeoutExpired"

InitFor(callers, paths) ==
    /\ pc = [c \in callers |-> "idle"]
    /\ args = [c \in callers |-> NoArgs]
    /\ inner = [c \in callers |-> None]
    /\ clock = [c \in callers |-> 0]
    /\ start_time = [c \in callers |-> 0]
    /\ waited = [c \in callers |-> 0]
    /\ temp_file = [c \in callers |-> None]
    /\ cmd = [c \in callers |-> << >>]
    /\ child = [c \in callers |-> NoChild]
    /\ faults = [c \in callers |-> << >>]
    /\ pending = [c \in callers |-> Nothing]
    /\ outcome = [c \in callers |-> Nothing]
    /\ fs = [p \in paths |-> Absent]
    /\ procs = {}
    /\ request = [c \in callers |-> NoRequest]
    /\ response = [c \in callers |-> NoResponse]
    /\ logs = [c \in callers |-> << >>]
    /\ validated = [code |-> << >>, called |-> FALSE, is_safe |-> TRUE,
                    reason |-> << >>]

Init == InitFor(Callers, Paths)

(***************************************************************************)
(* The call begins.  execute_python_code reads start_time and enters its   *)
(* try block; execute_in_docker reads start_time and goes on to create the *)
(* script, whatever the language.                                          *)
(***************************************************************************)
Enter(c, func, code, language, timeout) ==
    /\ pc[c] = "idle"
    /\ args' = [args EXCEPT ![c] = [func |-> func, code |-> code,
                                    language |-> language, timeout |-> timeout]]
    /\ pc' = [pc EXCEPT ![c] =
                 IF func = "execute_python_code" THEN "dispatch" ELSE "create"]
    /\ inner' = [inner EXCEPT ![c] =
                 IF func = "execute_python_code" THEN None ELSE func]
    /\ clock' = [clock EXCEPT ![c] = 0]
    /\ start_time' = [start_time EXCEPT ![c] = 0]
    /\ waited' = [waited EXCEPT ![c] = 0]
    /\ temp_file' = [temp_file EXCEPT ![c] = None]
    /\ cmd' = [cmd EXCEPT ![c] = << >>]
    /\ child' = [child EXCEPT ![c] = NoChild]
    /\ faults' = [faults EXCEPT ![c] = << >>]
    /\ pending' = [pending EXCEPT ![c] = Nothing]
    /\ outcome' = [outcome EXCEPT ![c] = Nothing]

\* A direct call of one of the two public functions.
Call(c, func, code, language, timeout) ==
    /\ request[c] = NoRequest
    /\ Enter(c, func, code, language, timeout)
    /\ UNCHANGED <<envVars, httpVars>>

\* A dispatcher that asks the validator first and refuses what it flags.
DispatchIfSafe(c) ==
    /\ pc[c] = "dispatch"
    /\ LET fn == Executor(args[c].language)
           verdict == validate_code_safety(Chars(args[c].code)) IN
         IF fn # None /\ verdict.is_safe
         THEN /\ inner' = [inner EXCEPT ![c] = fn]
              /\ start_time' = [start_time EXCEPT ![c] = clock[c]]
              /\ pc' = [pc EXCEPT ![c] = "create"]
              /\ UNCHANGED outcome
         ELSE /\ outcome' = [outcome EXCEPT ![c] =
                                Returns(Unsupported(args[c].language))]
              /\ pc' = [pc EXCEPT ![c] = "done"]
              /\ UNCHANGED <<inner, start_time>>
    /\ UNCHANGED <<args, clock, waited, temp_file, cmd, child, faults,
                   pending, envVars, httpVars>>

\* execute_python_code: the if / elif / else on the language.
Dispatch(c) ==
    /\ pc[c] = "dispatch"
    /\ LET fn == Executor(args[c].language) IN
         IF fn # None
         THEN /\ inner' = [inner EXCEPT ![c] = fn]
              /\ start_time' = [start_time EXCEPT ![c] = clock[c]]
              /\ pc' = [pc EXCEPT ![c] = "create"]
              /\ UNCHANGED outcome
         ELSE /\ outcome' = [outcome EXCEPT ![c] =
                                Returns(Unsupported(args[c].language))]
              /\ pc' = [pc EXCEPT ![c] = "done"]
              /\ UNCHANGED <<inner, start_time>>
    /\ UNCHANGED <<args, clock, waited, temp_file, cmd, child, faults,
                   pending, envVars, httpVars>>

\* The script opened under a name, whether or not a file has it already.
CreateTempOverwrite(c) ==
    /\ pc[c] = "create"
    /\ \E path \in PathsWith(Suffix(inner[c])) :
         /\ fs' = [fs EXCEPT ![path] = ""]
         /\ temp_file' = [temp_file EXCEPT ![c] = path]
         /\ pc' = [pc EXCEPT ![c] = "write"]
    /\ UNCHANGED <<args, inner, clock, start_time, waited, cmd, child,
                   pending, outcome, faults, procs, httpVars>>

\* tempfile.NamedTemporaryFile(mode='w', suffix=..., delete=False): a new
\* empty file under a name no existing file has, or an error and no file.
\* The statement stands before the try block, so the error leaves the
\* executor function at once.
CreateTemp(c) ==
    /\ pc[c] = "create"
    /\ \/ \E path \in PathsWith(Suffix(inner[c])) :
            /\ ~Exists(path)
            /\ fs' = [fs EXCEPT ![path] = ""]
            /\ temp_file' = [temp_file EXCEPT ![c] = path]
            /\ pc' = [pc EXCEPT ![c] = "write"]
            /\ UNCHANGED <<outcome, faults>>
       \/ \E e \in CreateErrors :
            /\ faults' = [faults EXCEPT ![c] = Append(@, Fault("create", e))]
            /\ outcome' = [outcome EXCEPT ![c] =
                              Escapes(args[c].func, e, clock[c])]
            /\ pc' = [pc EXCEPT ![c] = "done"]
            /\ UNCHANGED <<fs, temp_file>>
    /\ UNCHANGED <<args, inner, clock, start_time, waited, cmd, child,
                   pending, procs, httpVars>>

\* f.write(code) and the close at the end of the with block.  Both stand
\* before the try block: when they raise, the file stays (delete=False) and
\* the finally block is never reached.
WriteCode(c) ==
    /\ pc[c] = "write"
    /\ \/ /\ Encodable(args[c].code)
          /\ fs' = [fs EXCEPT ![temp_file[c]] = args[c].code]
          /\ pc' = [pc EXCEPT ![c] = "spawn"]
          /\ UNCHANGED <<outcome, faults>>
       \/ \E e \in (IF Encodable(args[c].code) THEN {} ELSE {EncodeError})
                     \cup WriteErrors :
            /\ faults' = [faults EXCEPT ![c] = Append(@, Fault("write", e))]
            /\ outcome' = [outcome EXCEPT ![c] =
                              Escapes(args[c].func, e, clock[c])]
            /\ pc' = [pc EXCEPT ![c] = "done"]
            /\ UNCHANGED fs
    /\ UNCHANGED <<args, inner, clock, start_time, waited, temp_file, cmd,
                   child, pending, procs, httpVars>>

\* subprocess.run, first half: Popen starts the process, or raises inside
\* the try block.
Spawn(c) ==
    /\ pc[c] = "spawn"
    /\ LET argv == Command(inner[c], temp_file[c]) IN
         \/ /\ procs' = procs \cup Started(c, argv)
            /\ cmd' = [cmd EXCEPT ![c] = argv]
            /\ child' = [child EXCEPT ![c].state = "running",
                                      ![c].script = fs[temp_file[c]]]
            /\ pc' = [pc EXCEPT ![c] = "wait"]
            /\ UNCHANGED <<pending, faults>>
         \/ \E e \in SpawnErrors(argv[1]) :
              /\ faults' = [faults EXCEPT ![c] = Append(@, Fault("spawn", e))]
              /\ pending' = [pending EXCEPT ![c] =
                                Except(inner[c], e, args[c].timeout,
                                       clock[c] - start_time[c])]
              /\ pc' = [pc EXCEPT ![c] = "finally"]
              /\ UNCHANGED <<procs, cmd, child>>
    /\ UNCHANGED <<args, inner, clock, start_time, waited, temp_file,
                   outcome, fs, httpVars>>

(***************************************************************************)
(* The guest while subprocess.run waits for it.                            *)
(***************************************************************************)
\* The guest forks a process of its own, which inherits the capture pipes
\* unless it closes them.
ChildFork(c, pipes) ==
    /\ pc[c] = "wait"
    /\ child[c].state = "running"
    /\ inner[c] # "execute_in_docker"
    /\ ~\E p \in Tree(c) : p.role = "descendant"
    /\ procs' = procs \cup {[call |-> c, role |-> "descendant", pipes |-> pipes]}
    /\ UNCHANGED <<callVars, fs, httpVars>>

\* The guest deletes its own script (the container mounts it read-only).
ChildUnlink(c) ==
    /\ pc[c] = "wait"
    /\ child[c].state = "running"
    /\ inner[c] # "execute_in_docker"
    /\ Exists(temp_file[c])
    /\ fs' = [fs EXCEPT ![temp_file[c]] = Absent]
    /\ UNCHANGED <<callVars, procs, httpVars>>

\* The spawned process ends by itself, leaving its streams and its status.
\* The docker client ends when its container has ended, and --rm has the
\* daemon remove the container then.
ChildExit(c, stdout, stderr, returncode) ==
    /\ pc[c] = "wait"
    /\ child[c].state = "running"
    /\ procs' = procs \ {Child(c), Container(c)}
    /\ child' = [child EXCEPT ![c].state = "exited", ![c].stdout = stdout,
                              ![c].stderr = stderr,
                              ![c].returncode = returncode]
    /\ UNCHANGED <<pc, args, inner, clock, start_time, waited, temp_file, cmd,
                   faults, pending, outcome, fs, httpVars>>

\* The python interpreter runs what it found at the script's path, to the
\* end.
GuestExit(c) ==
    /\ cmd[c] # << >>
    /\ cmd[c][1] = "python"
    /\ LET r == PythonRuns(child[c].script, temp_file[c]) IN
         ChildExit(c, r.stdout, r.stderr, r.returncode)

\* A process forked by some guest ends by itself.
DescendantExit(p) ==
    /\ p \in procs
    /\ p.role = "descendant"
    /\ procs' = procs \ {p}
    /\ UNCHANGED <<callVars, fs, httpVars>>

(***************************************************************************)
(* subprocess.run, second half.                                            *)
(***************************************************************************)
\* communicate() returns once the process has exited and both pipes are at
\* end of file; text=True decodes what was captured.  The function then
\* reads the clock and returns the result record.
RunReturns(c) ==
    /\ pc[c] = "wait"
    /\ child[c].state = "exited"
    /\ ~PipesHeld(c)
    /\ IF Decodable(child[c].stdout)
       THEN /\ pending' = [pending EXCEPT ![c] =
                   Returns(Completed(child[c].stdout, child[c].stderr,
                                     child[c].returncode,
                                     clock[c] - start_time[c]))]
            /\ UNCHANGED faults
       ELSE /\ pending' = [pending EXCEPT ![c] =
                   Except(inner[c], DecodeError, args[c].timeout,
                          clock[c] - start_time[c])]
            /\ faults' = [faults EXCEPT ![c] =
                             Append(@, Fault("wait", DecodeError))]
    /\ pc' = [pc EXCEPT ![c] = "finally"]
    /\ UNCHANGED <<args, inner, clock, start_time, waited, temp_file, cmd,
                   child, outcome, envVars, httpVars>>

\* communicate() raises while it buffers what the guest writes:
\* subprocess.run kills the process it spawned and lets the exception go on.
RunRaises(c) ==
    /\ pc[c] = "wait"
    /\ child[c].state = "running"
    /\ \E e \in CaptureErrors :
         /\ faults' = [faults EXCEPT ![c] = Append(@, Fault("wait", e))]
         /\ pending' = [pending EXCEPT ![c] =
                           Except(inner[c], e, args[c].timeout,
                                  clock[c] - start_time[c])]
    /\ procs' = procs \ {Child(c)}
    /\ child' = [child EXCEPT ![c].state = "killed"]
    /\ pc' = [pc EXCEPT ![c] = "finally"]
    /\ UNCHANGED <<args, inner, clock, start_time, waited, temp_file, cmd,
                   outcome, fs, httpVars>>

\* subprocess.run called without a timeout: the deadline never fires.
WaitWithoutDeadline(c) ==
    /\ pc[c] = "wait"
    /\ FALSE
    /\ UNCHANGED vars

\* The deadline passes and TimeoutExpired is raised while the process is
\* left running.
TimeoutWithoutKill(c) ==
    /\ pc[c] = "wait"
    /\ waited[c] = args[c].timeout
    /\ child[c].state = "running" \/ PipesHeld(c)
    /\ faults' = [faults EXCEPT ![c] = Append(@, Fault("wait", TimeoutExpired))]
    /\ pending' = [pending EXCEPT ![c] =
                      Except(inner[c], TimeoutExpired, args[c].timeout,
                             clock[c] - start_time[c])]
    /\ pc' = [pc EXCEPT ![c] = "finally"]
    /\ UNCHANGED <<args, inner, clock, start_time, waited, temp_file, cmd,
                   child, outcome, envVars, httpVars>>

\* The deadline passes and the record built keeps what was captured.
TimeoutKeepsOutput(c) ==
    /\ pc[c] = "wait"
    /\ waited[c] = args[c].timeout
    /\ child[c].state = "running" \/ PipesHeld(c)
    /\ procs' = procs \ {Child(c)}
    /\ \E stdout \in Stdouts, stderr \in Stderrs :
         /\ child' = [child EXCEPT ![c] =
                         IF @.state = "running"
                         THEN [@ EXCEPT !.state = "killed",
                                        !.stdout = stdout, !.stderr = stderr]
                         ELSE @]
         /\ pending' = [pending EXCEPT ![c] =
                           Returns(Completed(child'[c].stdout, child'[c].stderr,
                                             -1, args[c].timeout))]
    /\ faults' = [faults EXCEPT ![c] = Append(@, Fault("wait", TimeoutExpired))]
    /\ pc' = [pc EXCEPT ![c] = "finally"]
    /\ UNCHANGED <<args, inner, clock, start_time, waited, temp_file, cmd,
                   outcome, fs, httpVars>>

\* The deadline passes first: subprocess.run kills the process it spawned
\* (Popen.kill, that one process), reaps it and raises TimeoutExpired.  What
\* the process had written by then stays with the exception, in its output
\* and stderr; the except clause does not read them.
Timeout(c) ==
    /\ pc[c] = "wait"
    /\ waited[c] = args[c].timeout
    /\ child[c].state = "running" \/ PipesHeld(c)
    /\ procs' = procs \ {Child(c)}
    /\ \E stdout \in Stdouts, stderr \in Stderrs :
         child' = [child EXCEPT ![c] =
                      IF @.state = "running"
                      THEN [@ EXCEPT !.state = "killed",
                                     !.stdout = stdout, !.stderr = stderr]
                      ELSE @]
    /\ faults' = [faults EXCEPT ![c] = Append(@, Fault("wait", TimeoutExpired))]
    /\ pending' = [pending EXCEPT ![c] =
                      Except(inner[c], TimeoutExpired, args[c].timeout,
                             clock[c] - start_time[c])]
    /\ pc' = [pc EXCEPT ![c] = "finally"]
    /\ UNCHANGED <<args, inner, clock, start_time, waited, temp_file, cmd,
                   outcome, fs, httpVars>>

(***************************************************************************)
(* finally: if os.path.exists(temp_file): os.unlink(temp_file).  Then the  *)
(* suspended return or raise goes on, unless os.unlink raised: its         *)
(* exception replaces it.                                                  *)
(***************************************************************************)
Leaves(c, how) ==
    IF how.kind = "return" THEN how
    ELSE Escapes(args[c].func, how.exc, clock[c])

Finally(c) ==
    /\ pc[c] = "finally"
    /\ \/ /\ Exists(temp_file[c])
          /\ fs' = [fs EXCEPT ![temp_file[c]] = Absent]
          /\ outcome' = [outcome EXCEPT ![c] = Leaves(c, pending[c])]
          /\ UNCHANGED faults
       \/ /\ Exists(temp_file[c])
          /\ \E e \in UnlinkErrors(temp_file[c]) :
               /\ faults' = [faults EXCEPT ![c] = Append(@, Fault("unlink", e))]
               /\ outcome' = [outcome EXCEPT ![c] = Leaves(c, Raises(e))]
          /\ UNCHANGED fs
       \/ /\ ~Exists(temp_file[c])
          /\ outcome' = [outcome EXCEPT ![c] = Leaves(c, pending[c])]
          /\ UNCHANGED <<fs, faults>>
    /\ pc' = [pc EXCEPT ![c] = "done"]
    /\ UNCHANGED <<args, inner, clock, start_time, waited, temp_file, cmd,
                   child, pending, procs, httpVars>>

\* What a call leaves behind when its frame is gone: the files and the
\* processes, which now belong to no call.
Forget(c) ==
    /\ pc' = [pc EXCEPT ![c] = "idle"]
    /\ args' = [args EXCEPT ![c] = NoArgs]
    /\ inner' = [inner EXCEPT ![c] = None]
    /\ clock' = [clock EXCEPT ![c] = 0]
    /\ start_time' = [start_time EXCEPT ![c] = 0]
    /\ waited' = [waited EXCEPT ![c] = 0]
    /\ temp_file' = [temp_file EXCEPT ![c] = None]
    /\ cmd' = [cmd EXCEPT ![c] = << >>]
    /\ child' = [child EXCEPT ![c] = NoChild]
    /\ faults' = [faults EXCEPT ![c] = << >>]
    /\ pending' = [pending EXCEPT ![c] = Nothing]
    /\ outcome' = [outcome EXCEPT ![c] = Nothing]
    /\ procs' = {IF p.call = c THEN Orphan ELSE p : p \in procs}
    /\ UNCHANGED fs

\* The direct caller takes the result (or the exception).
Return(c) ==
    /\ pc[c] = "done"
    /\ request[c] = NoRequest
    /\ Forget(c)
    /\ UNCHANGED httpVars

(***************************************************************************)
(* Time.  Inside subprocess.run the clock runs up to the deadline, sampled *)
(* second by second for the first MaxTimeout seconds and at the deadline;  *)
(* outside it a call spends at most MaxOverhead seconds.                   *)
(***************************************************************************)
\* Waiting that goes on past the deadline.
WaitStepsPastDeadline(c) ==
    {d \in {1} : waited[c] < args[c].timeout + MaxOverhead + 1}

WaitSteps(c) ==
    {d \in {1, args[c].timeout - waited[c]} :
        /\ d > 0
        /\ waited[c] + d <= args[c].timeout
        /\ d = 1 => waited[c] < MaxTimeout}

Tick(c) ==
    /\ \/ /\ pc[c] = "wait"
          /\ \E d \in WaitSteps(c) :
               /\ waited' = [waited EXCEPT ![c] = @ + d]
               /\ clock' = [clock EXCEPT ![c] = @ + d]
       \/ /\ pc[c] \in {"dispatch", "create", "write", "spawn", "finally"}
          /\ clock[c] - waited[c] < MaxOverhead
          /\ clock' = [clock EXCEPT ![c] = @ + 1]
          /\ UNCHANGED waited
    /\ UNCHANGED <<pc, args, inner, start_time, temp_file, cmd, child,
                   faults, pending, outcome, envVars, httpVars>>

(***************************************************************************)
(* The steps of a call in progress, and the sandbox called directly.       *)
(***************************************************************************)
Step(c) ==
    \/ Dispatch(c)
    \/ CreateTemp(c)
    \/ WriteCode(c)
    \/ Spawn(c)
    \/ \E pipes \in BOOLEAN : ChildFork(c, pipes)
    \/ ChildUnlink(c)
    \/ \E stdout \in Stdouts, stderr \in Stderrs, returncode \in ReturnCodes :
         ChildExit(c, stdout, stderr, returncode)
    \/ RunReturns(c)
    \/ RunRaises(c)
    \/ Timeout(c)
    \/ Finally(c)
    \/ Tick(c)

Next ==
    \/ \E c \in Callers, func \in Funcs, code \in Codes,
          language \in Languages, timeout \in 1..MaxTimeout :
         Call(c, func, code, language, timeout)
    \/ \E c \in Callers : Step(c)
    \/ \E c \in Callers : Return(c)
    \/ \E p \in procs : DescendantExit(p)

Spec == Init /\ [][Next]_vars

(***************************************************************************)
(* The same under fairness: the thread of a call keeps running, so a step  *)
(* of the code that can be taken is taken, and time passes.  Nothing is    *)
(* assumed of the guest or of the faults of the environment.               *)
(***************************************************************************)
Proceeds(c) ==
    \/ Dispatch(c)
    \/ CreateTemp(c)
    \/ WriteCode(c)
    \/ Spawn(c)
    \/ RunReturns(c)
    \/ Timeout(c)
    \/ Finally(c)

SpecFair ==
    /\ Init
    /\ [][Next]_vars
    /\ \A c \in Callers : WF_vars(Proceeds(c)) /\ WF_vars(Tick(c))

(***************************************************************************)
(* Concurrent calls of execute_python_code: two calls at a time over a     *)
(* temporary directory with two names, and python guests whose code        *)
(* decides what they print and that leave the temporary directory alone.   *)
(* The guests end at once: no call of this specification meets its         *)
(* deadline, and its clock stands still.                                   *)
(***************************************************************************)
ConcCallers == {1, 2}

ConcPaths == {TempName(n, ".py") : n \in Names \cup SpareNames}

InitConc == InitFor(ConcCallers, ConcPaths)

NextConc ==
    \/ \E c \in ConcCallers, code \in ScenarioCodes :
         Call(c, "execute_python_code", code, "python", MaxTimeout)
    \/ \E c \in ConcCallers : Dispatch(c)
    \/ \E c \in ConcCallers : CreateTemp(c)
    \/ \E c \in ConcCallers : WriteCode(c)
    \/ \E c \in ConcCallers : Spawn(c)
    \/ \E c \in ConcCallers : GuestExit(c)
    \/ \E c \in ConcCallers : RunReturns(c)
    \/ \E c \in ConcCallers : Finally(c)
    \/ \E c \in ConcCallers : Return(c)

SpecConc == InitConc /\ [][NextConc]_vars

(***************************************************************************)
(* The endpoint POST /api/v1/execute.  FastAPI resolves the user and       *)
(* validates the body as a CodeExecution before it calls the handler; the  *)
(* handler calls execute_python_code, writes the log row and returns the   *)
(* result.                                                                 *)
(***************************************************************************)
\* Field(default=10, ge=1, le=60)
TimeoutDefault == 10
TimeoutGe      == 1
TimeoutLe      == 60

\* An optional field of the body.
Given(value) == [given |-> TRUE, value |-> value]
Omitted      == [given |-> FALSE, value |-> 0]

RawTimeouts == {Omitted} \cup
    {Given(t) : t \in {TimeoutGe - 1, TimeoutGe, TimeoutLe, TimeoutLe + 1}}

\* None: the body has no "language".
RawLanguages == Languages \cup {None}

RawProjectIds == {Omitted, Given(7)}

UserIds == {1}

Bodies ==
    [code : Codes, language : RawLanguages, timeout : RawTimeouts,
     project_id : RawProjectIds]

\* A validator of the language that lets every value pass.
validate_language_any(v) == v = v

\* CodeExecution.validate_language
validate_language(v) == v \in {"python", "javascript"}

\* The field timeout without its upper limit.
validate_timeout_no_le(v) == v >= TimeoutGe

\* The constraints of the field timeout.
validate_timeout(v) == v >= TimeoutGe /\ v <= TimeoutLe

\* The CodeExecution model: whether the body is valid, the fields that
\* make it invalid, and the object made of a valid one, defaults filled in.
CodeExecutionValid(body) ==
    /\ body.language # None => validate_language(body.language)
    /\ body.timeout.given => validate_timeout(body.timeout.value)

InvalidFields(body) ==
    {f \in {"language"} :
        body.language # None /\ ~validate_language(body.language)}
    \cup {f \in {"timeout"} :
        body.timeout.given /\ ~validate_timeout(body.timeout.value)}

CodeExecution(body) ==
    [code |-> body.code,
     language |-> IF body.language # None THEN body.language ELSE "python",
     project_id |-> body.project_id,
     timeout |-> IF body.timeout.given THEN body.timeout.value
                 ELSE TimeoutDefault]

\* crud.create_execution_log: the row it adds.
create_execution_log(user_id, project_id, code, language, output, error, execution_time) ==
    [user_id |-> user_id, project_id |-> project_id, code |-> code,
     language |-> language, output |-> output, error |-> error,
     execution_time |-> execution_time,
     exit_code |-> IF error \in {None, ""} THEN 0 ELSE 1]

\* A request arrives.  Without a valid token the answer is 401, with an
\* invalid body 422, and the handler does not run; otherwise the handler
\* starts and calls execute_python_code with the validated fields.
Receive(c, body, user_id, authenticated) ==
    /\ pc[c] = "idle"
    /\ logs' = [logs EXCEPT ![c] = << >>]
    /\ IF ~authenticated \/ ~CodeExecutionValid(body)
       THEN /\ response' = [response EXCEPT ![c] =
                   [status |-> IF ~authenticated THEN 401 ELSE 422,
                    body |-> NoResult,
                    detail |-> IF ~authenticated THEN {}
                               ELSE InvalidFields(body)]]
            /\ UNCHANGED <<request, callVars>>
       ELSE LET execution == CodeExecution(body) IN
            /\ request' = [request EXCEPT ![c] =
                   [user_id |-> user_id, body |-> body,
                    execution |-> execution]]
            /\ response' = [response EXCEPT ![c] = NoResponse]
            /\ Enter(c, "execute_python_code", execution.code,
                     execution.language, execution.timeout)
    /\ UNCHANGED <<envVars, validated>>

\* db.commit() in create_execution_log: the row's project_id is a foreign
\* key to projects.id, and the handler does not look the project up, so
\* the INSERT of a row that names a project fails when there is no such
\* project.
CommitErrors(project_id) ==
    IF project_id.given
    THEN {Exc("IntegrityError",
              "insert or update on table \"execution_logs\" violates "
              \o "foreign key constraint")}
    ELSE {}

\* execute_python_code has returned: the handler writes the log row and
\* returns the result, which becomes the body of the response.  An
\* exception of the call or of the commit leaves the handler: the answer is
\* 500 and no row is written.
Respond(c) ==
    /\ pc[c] = "done"
    /\ request[c] # NoRequest
    /\ IF outcome[c].kind = "return"
       THEN LET result == outcome[c].value
                execution == request[c].execution IN
            \/ /\ logs' = [logs EXCEPT ![c] =
                      Append(@, create_execution_log(
                                    request[c].user_id, execution.project_id,
                                    execution.code, execution.language,
                                    result.output, result.error,
                                    result.execution_time))]
               /\ response' = [response EXCEPT ![c] =
                                  [status |-> 200, body |-> result, detail |-> {}]]
            \/ /\ CommitErrors(execution.project_id) # {}
               /\ response' = [response EXCEPT ![c] =
                                  [status |-> 500, body |-> NoResult, detail |-> {}]]
               /\ UNCHANGED logs
       ELSE /\ response' = [response EXCEPT ![c] =
                               [status |-> 500, body |-> NoResult, detail |-> {}]]
            /\ UNCHANGED logs
    /\ request' = [request EXCEPT ![c] = NoRequest]
    /\ Forget(c)
    /\ UNCHANGED validated

\* The steps of a call whose guest starts no process of its own and leaves
\* its script alone.
StepAlone(c) ==
    \/ Dispatch(c)
    \/ CreateTemp(c)
    \/ WriteCode(c)
    \/ Spawn(c)
    \/ \E stdout \in Stdouts, stderr \in Stderrs, returncode \in ReturnCodes :
         ChildExit(c, stdout, stderr, returncode)
    \/ RunReturns(c)
    \/ RunRaises(c)
    \/ Timeout(c)
    \/ Finally(c)
    \/ Tick(c)

NextEndpoint ==
    \/ \E c \in Callers, body \in Bodies, user_id \in UserIds,
          authenticated \in BOOLEAN :
         Receive(c, body, user_id, authenticated)
    \/ \E c \in Callers : StepAlone(c)
    \/ \E c \in Callers : Respond(c)

SpecEndpoint == Init /\ [][NextEndpoint]_vars

(***************************************************************************)
(* execute_python_code on python code whose behaviour is known, with the   *)
(* default timeout: the guest prints what its code says and ends, unless   *)
(* the deadline comes first.                                               *)
(***************************************************************************)
NextScenario ==
    \/ \E c \in Callers, code \in ScenarioCodes :
         Call(c, "execute_python_code", code, "python", TimeoutDefault)
    \/ \E c \in Callers : Dispatch(c)
    \/ \E c \in Callers : CreateTemp(c)
    \/ \E c \in Callers : WriteCode(c)
    \/ \E c \in Callers : Spawn(c)
    \/ \E c \in Callers : GuestExit(c)
    \/ \E c \in Callers : RunReturns(c)
    \/ \E c \in Callers : Timeout(c)
    \/ \E c \in Callers : Finally(c)
    \/ \E c \in Callers : Tick(c)
    \/ \E c \in Callers : Return(c)

SpecScenario == Init /\ [][NextScenario]_vars

(***************************************************************************)
(* validate_code_safety asked about a code, by whoever cares to ask.       *)
(***************************************************************************)
\* Pieces of code, and the codes made of at most MaxFragments of them.
Fragments ==
    {
        <<"i", "m", "p", "o", "r", "t", " ", "o", "s">>,
        <<"I", "M", "P", "O", "R", "T", " ", "S", "y", "s">>,
        <<"e", "v", "a", "l", "(">>,
        <<"E", "V", "A", "L", "(">>,
        <<"r", "a", "w", "_", "i", "n", "p", "u", "t", "(">>,
        <<"p", "r", "i", "n", "t", "(">>,
        <<"x", " ", "=", " ", "1">>,
        <<"\n">>,
        <<"i", "m", "p", "o", "r", "t">>,
        <<" ", "o", "s">>,
        <<"o", "p", "e", "n", " ", "(">>,
        <<"_", "_", "i", "m", "p", "o", "r", "t", "_", "_">>
    }

RECURSIVE CodesOf(_)
CodesOf(n) ==
    IF n = 0 THEN {<< >>}
    ELSE LET shorter == CodesOf(n - 1) IN
         shorter \cup {code \o f : code \in shorter, f \in Fragments}

NoVerdict == [code |-> << >>, called |-> FALSE, is_safe |-> TRUE,
              reason |-> NoText]

\* Some caller asks for the verdict on a code.  The function is pure: one
\* question per run shows all it does.
Validate(code) ==
    /\ ~validated.called
    /\ LET r == validate_code_safety(code) IN
         validated' = [code |-> code, called |-> TRUE,
                       is_safe |-> r.is_safe, reason |-> r.reason]
    /\ UNCHANGED <<callVars, envVars, request, response, logs>>

NextValidator == \E code \in CodesOf(MaxFragments) : Validate(code)

SpecValidator == Init /\ [][NextValidator]_vars

(***************************************************************************)
(* The execute endpoint on python code whose behaviour is known, one of    *)
(* the codes being one the validator flags, while the validator may be     *)
(* asked about any of them.                                                *)
(***************************************************************************)
AdvisoryCodes == {"print('out')", FlaggedCode}

AdvisoryBodies ==
    [code : AdvisoryCodes, language : {"python"}, timeout : {Omitted},
     project_id : {Omitted}]

NextAdvisory ==
    \/ \E c \in Callers, body \in AdvisoryBodies, user_id \in UserIds :
         Receive(c, body, user_id, TRUE)
    \/ \E code \in AdvisoryCodes : Validate(Chars(code))
    \/ \E c \in Callers : Dispatch(c)
    \/ \E c \in Callers : CreateTemp(c)
    \/ \E c \in Callers : WriteCode(c)
    \/ \E c \in Callers : Spawn(c)
    \/ \E c \in Callers : GuestExit(c)
    \/ \E c \in Callers : RunReturns(c)
    \/ \E c \in Callers : Timeout(c)
    \/ \E c \in Callers : Finally(c)
    \/ \E c \in Callers : Tick(c)
    \/ \E c \in Callers : Respond(c)

SpecAdvisory == Init /\ [][NextAdvisory]_vars

(***************************************************************************)
(* Properties.                                                             *)
(***************************************************************************)
Done(c) == pc[c] = "done"

\* The call ended by returning a result record.
Returned(c) == Done(c) /\ outcome[c].kind = "return"

\* The last exception raised during the call.
LastFault(c) == faults[c][Len(faults[c])]

\* An exception other than the deadline's was the last one raised.
Faulted(c) ==
    /\ faults[c] # << >>
    /\ LastFault(c).exc.type # "TimeoutExpired"

UnlinkRaised(c) ==
    \E i \in 1..Len(faults[c]) : faults[c][i].at = "unlink"

\* The program a spawned argv runs the script with.
Interpreter(argv) ==
    IF argv[1] = "docker" THEN argv[Len(argv) - 1] ELSE argv[1]

\* The call took the natural-completion path: subprocess.run returned the
\* completed process and no step of the call raised.
NaturalCompletion(c) ==
    /\ pc[c] \in {"finally", "done"}
    /\ child[c].state = "exited"
    /\ faults[c] = << >>

\* C1: every result returned by execute_python_code or execute_in_docker has
\* success = (exit_code = 0 and error is empty or null).
C1_SuccessIffCleanExit ==
    \A c \in Callers :
        Returned(c) =>
            LET r == outcome[c].value IN
            r.success = (r.exit_code = 0 /\ r.error \in {None, ""})

\* C2: once a call has returned or raised, the temporary script it created
\* does not exist.
C2_ScriptDeleted ==
    \A c \in Callers :
        Done(c) /\ temp_file[c] # None => ~Exists(temp_file[c])

\* C3: after a call that timed out has returned, neither the spawned child
\* nor a process forked by it is still running.
C3_TreeTerminated ==
    \A c \in Callers :
        Done(c) /\ Expired(c) => Tree(c) = {}

C5_MinusOneOnlyOnTimeout ==
    \A c \in Callers :
        Returned(c) /\ outcome[c].value.exit_code = -1 => Expired(c)

\* C6 as claimed: execute_python_code never raises, and any exception
\* raised while creating the script, spawning, waiting or deleting the
\* script becomes a result with success = false, exit_code = 1 and error
\* equal to the exception's message.
C6_ExceptionsBecomeResults ==
    \A c \in Callers :
        Done(c) /\ args[c].func = "execute_python_code" =>
            /\ outcome[c].kind = "return"
            /\ Faulted(c) =>
                 LET r == outcome[c].value IN
                 /\ r.success = FALSE
                 /\ r.exit_code = 1
                 /\ r.error = str(LastFault(c).exc)

\* C6 as amended: the same, except that a FileNotFoundError from spawning
\* node is reported with the fixed text "Node.js is not installed or not in
\* PATH" instead of the exception's message.
C6_ExceptionsBecomeResultsNodeMessage ==
    \A c \in Callers :
        Done(c) /\ args[c].func = "execute_python_code" =>
            /\ outcome[c].kind = "return"
            /\ Faulted(c) =>
                 LET r == outcome[c].value
                     f == LastFault(c) IN
                 /\ r.success = FALSE
                 /\ r.exit_code = 1
                 /\ r.error =
                       IF /\ inner[c] = "_execute_javascript"
                          /\ f.at = "spawn"
                          /\ f.exc.type = "FileNotFoundError"
                       THEN "Node.js is not installed or not in PATH"
                       ELSE str(f.exc)

C6_Witness ==
    \E c \in Callers :
        /\ Done(c)
        /\ args[c].func = "execute_python_code"
        /\ Len(faults[c]) = 2
        /\ LastFault(c).at = "unlink"
        /\ outcome[c].kind = "return"
        /\ outcome[c].value.exit_code = 1
        /\ outcome[c].value.error = str(LastFault(c).exc)

\* C7: every failure to launch the container runtime is returned by
\* execute_in_docker as a result with success = false and exit_code = 1, and
\* is never raised to the caller.
C7_DockerLaunchFailuresBecomeResults ==
    \A c \in Callers :
        /\ Done(c)
        /\ args[c].func = "execute_in_docker"
        /\ Faulted(c)
        /\ LastFault(c).at = "spawn"
        => /\ outcome[c].kind = "return"
           /\ outcome[c].value.success = FALSE
           /\ outcome[c].value.exit_code = 1

\* C8: for a language other than python and javascript, execute_python_code
\* creates no temporary script, spawns no process and returns
\* {output: null, error: "Unsupported language: <language>",
\*  execution_time: 0, exit_code: 1, success: false}.
C8_UnsupportedLanguage ==
    \A c \in Callers :
        /\ pc[c] # "idle"
        /\ args[c].func = "execute_python_code"
        /\ args[c].language \notin {"python", "javascript"}
        => /\ temp_file[c] = None
           /\ cmd[c] = << >>
           /\ child[c].state = "none"
           /\ Tree(c) = {}
           /\ pc[c] \in {"dispatch", "done"}
           /\ Done(c) =>
                outcome[c] =
                   Returns([output |-> None,
                            error |-> "Unsupported language: "
                                      \o args[c].language,
                            execution_time |-> 0,
                            exit_code |-> 1,
                            success |-> FALSE])

C8_Witness ==
    \E c \in Callers :
        /\ Done(c)
        /\ args[c].func = "execute_python_code"
        /\ args[c].language = "ruby"
        /\ outcome[c].value.error = "Unsupported language: ruby"
        /\ clock[c] > 0

\* C9: in both backends a process is spawned only for a language of the
\* allow-list {python, javascript}, and a javascript request never runs the
\* python interpreter.
C9_AllowListDecidesInterpreter ==
    \A c \in Callers :
        cmd[c] # << >> =>
            /\ args[c].language \in {"python", "javascript"}
            /\ args[c].language = "javascript" =>
                  Interpreter(cmd[c]) # "python"

\* C10: every timeout that reaches execute_python_code through the endpoint
\* is an integer in [1, 60]: the one the request gave, or 10 when it gave
\* none; a request with a timeout below 1 or above 60 starts no call.
C10_TimeoutValidated ==
    \A c \in Callers :
        pc[c] # "idle" =>
            /\ request[c] # NoRequest
            /\ args[c].timeout \in 1..60
            /\ request[c].body.timeout.given =>
                  args[c].timeout = request[c].body.timeout.value
            /\ ~request[c].body.timeout.given => args[c].timeout = 10

C10_Witness ==
    \E c \in Callers :
        /\ pc[c] = "wait"
        /\ cmd[c] # << >>
        /\ ~request[c].body.timeout.given
        /\ args[c].timeout = 10
        /\ waited[c] = 10

\* The result of the call c holds the child's streams: output is null
\* exactly when stdout was empty and is the stdout otherwise, error is null
\* exactly when stderr was empty and is the stderr otherwise.
StreamsOrNull(c) ==
    /\ outcome[c].kind = "return"
    /\ outcome[c].value.output = None <=> child[c].stdout = ""
    /\ child[c].stdout # "" => outcome[c].value.output = child[c].stdout
    /\ outcome[c].value.error = None <=> child[c].stderr = ""
    /\ child[c].stderr # "" => outcome[c].value.error = child[c].stderr

C12_NoEmptyText ==
    \A c \in Callers :
        Returned(c) =>
            /\ outcome[c].value.output # ""
            /\ outcome[c].value.error # ""

\* Spawning the interpreter was the step of the call c that raised.
SpawnFailed(c) ==
    \E i \in 1..Len(faults[c]) : faults[c][i].at = "spawn"

\* C13: when the interpreter cannot be spawned (executable missing or
\* permission denied), for either guest language, execute_python_code
\* returns a result with a non-empty error, exit_code = 1, success = false
\* and output = null, no exception reaches the caller, and the record built
\* at the failure carries the time elapsed from the start of the executor
\* function up to the failure.
C13_SpawnFailure ==
    /\ [](\A c \in Callers :
            /\ Done(c)
            /\ args[c].func = "execute_python_code"
            /\ SpawnFailed(c)
            => /\ outcome[c].kind = "return"
               /\ outcome[c].value.error \notin {None, ""}
               /\ outcome[c].value.exit_code = 1
               /\ outcome[c].value.success = FALSE
               /\ outcome[c].value.output = None
               /\ ~UnlinkRaised(c) => outcome[c] = pending[c])
    /\ [][\A c \in Callers :
            /\ args[c].func = "execute_python_code"
            /\ pc[c] = "spawn"
            /\ pc'[c] = "finally"
            => /\ pending'[c].kind = "return"
               /\ pending'[c].value.execution_time =
                     clock[c] - start_time[c]]_vars

C13_Witness ==
    \E c \in Callers :
        /\ Done(c)
        /\ args[c].func = "execute_python_code"
        /\ args[c].language = "javascript"
        /\ SpawnFailed(c)
        /\ LastFault(c).exc.type = "PermissionError"
        /\ outcome[c].value.error = "[Errno 13] Permission denied: 'node'"
        /\ outcome[c].value.execution_time = 1

\* The step builds a result record inside the executor function of c.
BuiltInside(c) ==
    pending'[c] # pending[c] /\ pending'[c].kind = "return"

\* The step builds a result record in execute_python_code itself: its
\* else branch or its except clause.
BuiltOutside(c) ==
    /\ pc[c] # "done"
    /\ pc'[c] = "done"
    /\ outcome'[c].kind = "return"
    /\ outcome'[c] # pending[c]

\* C14 as claimed: on every path (natural completion, guest failure, spawn
\* failure, unsupported language, timeout) the execution_time of a result
\* is the wall-clock time elapsed from the start of the function building
\* it to the moment it is built.
C14_ElapsedOnEveryPath ==
    [][\A c \in Callers :
         /\ BuiltInside(c) =>
               pending'[c].value.execution_time = clock[c] - start_time[c]
         /\ BuiltOutside(c) =>
               outcome'[c].value.execution_time = clock[c]]_vars

\* C14 as amended: execution_time is that elapsed time on the natural
\* completion, guest failure, spawn failure and caught-exception paths; on
\* the timeout path it is the requested timeout itself, and on the
\* unsupported-language path it is 0.
C14_ElapsedExceptTimeoutAndUnsupported ==
    [][\A c \in Callers :
         /\ BuiltInside(c) =>
               pending'[c].value.execution_time =
                  IF faults'[c] # faults[c]
                     /\ faults'[c][Len(faults'[c])].exc.type = "TimeoutExpired"
                  THEN args[c].timeout
                  ELSE clock[c] - start_time[c]
         /\ BuiltOutside(c) =>
               outcome'[c].value.execution_time =
                  IF faults'[c] = faults[c] THEN 0 ELSE clock[c]]_vars

C14_Witness ==
    \E c \in Callers :
        /\ pc[c] = "finally"
        /\ Expired(c)
        /\ pending[c].value.execution_time = args[c].timeout
        /\ waited[c] = args[c].timeout
        /\ clock[c] - start_time[c] > args[c].timeout

\* C15: for a supported language and a timeout of at least 1, the
\* execution_time of the result is at most the timeout plus a fixed
\* tolerance (here the time a call can spend outside subprocess.run), on
\* the natural-completion, timeout and failure paths alike.
C15_ExecutionTimeBounded ==
    \A c \in Callers :
        /\ Returned(c)
        /\ args[c].language \in {"python", "javascript"}
        /\ args[c].timeout >= 1
        => outcome[c].value.execution_time <= args[c].timeout + MaxOverhead

C15_Witness ==
    \E c \in Callers :
        /\ Returned(c)
        /\ args[c].func = "execute_python_code"
        /\ NaturalCompletion(c)
        /\ waited[c] = args[c].timeout
        /\ outcome[c].value.execution_time = args[c].timeout + MaxOverhead

HelloCompleted(c) ==
    /\ Done(c)
    /\ NaturalCompletion(c)
    /\ args[c].func = "execute_python_code"
    /\ args[c].language = "python"
    /\ args[c].timeout = 10
    /\ args[c].code = HelloCode

SurfacedVerbatim(c) ==
    /\ outcome[c].kind = "return"
    /\ outcome[c].value.exit_code = child[c].returncode
    /\ outcome[c].value.error =
          (IF child[c].stderr # "" THEN child[c].stderr ELSE None)
    /\ child[c].returncode # 0 /\ child[c].stderr # "" =>
          /\ outcome[c].value.exit_code # 0
          /\ outcome[c].value.error \notin {None, ""}
          /\ outcome[c].value.success = FALSE

C20_DockerDropIn ==
    \A c \in Callers :
        /\ args[c].func = "execute_in_docker"
        /\ args[c].language \in {"python", "javascript"}
        /\ cmd[c] # << >>
        => LET fn == Executor(args[c].language) IN
           /\ temp_file[c] \in PathsWith(Suffix(fn))
           /\ Interpreter(cmd[c]) = Interpreter(Command(fn, temp_file[c]))

\* C21: after execute_in_docker has returned, the container it started
\* neither exists nor runs, on every path, the timeout included.
C21_ContainerRemoved ==
    \A c \in Callers :
        Returned(c) /\ args[c].func = "execute_in_docker" =>
            Container(c) \notin procs

\* The first pattern of the denylist, in its order, that the lower-cased
\* code holds.
FirstInDenylist(code) ==
    LET hits == {i \in 1..Len(dangerous_patterns) :
                    Contains(Lower(code), Lower(dangerous_patterns[i]))} IN
    dangerous_patterns[CHOOSE i \in hits : \A j \in hits : i <= j]

\* C22: validate_code_safety returns (false, reason) if and only if the
\* lower-cased code holds a lower-cased denylist pattern as a substring, and
\* (true, null) otherwise; the reason is non-null exactly when is_safe is
\* false, and names the first matching pattern in denylist order.
C22_DenylistVerdict ==
    validated.called =>
        /\ validated.is_safe = FALSE <=>
              \E i \in 1..Len(dangerous_patterns) :
                  Contains(Lower(validated.code), Lower(dangerous_patterns[i]))
        /\ validated.is_safe => validated.reason = NoText
        /\ ~validated.is_safe =>
              validated.reason =
                 Text(Detected \o FirstInDenylist(validated.code))

\* "EVAL(" stands first in the text, "import os" first in the denylist.
C22_Witness ==
    /\ validated.called
    /\ validated.code = <<"E", "V", "A", "L", "(">>
                           \o <<"i", "m", "p", "o", "r", "t", " ", "o", "s">>
    /\ ~validated.is_safe
    /\ validated.reason =
          Text(Detected \o <<"i", "m", "p", "o", "r", "t", " ", "o", "s">>)

\* The validator flags the code.
Flagged(code) == ~validate_code_safety(Chars(code)).is_safe

\* C23: the validator is advisory.  A code it flags is dispatched to its
\* executor like any other; when its child completes, the child ran that
\* code from the script and the result is the completion record of what the
\* child left; and the endpoint answers with that result.
C23_ValidatorAdvisory ==
    /\ [][\A c \in Callers :
             pc[c] = "dispatch" /\ pc'[c] # "dispatch"
                 /\ Flagged(args[c].code) =>
                     pc'[c] = "create"]_vars
    /\ [](\A c \in Callers :
             Returned(c) /\ NaturalCompletion(c) /\ Flagged(args[c].code) =>
                 /\ child[c].script = args[c].code
                 /\ outcome[c].value =
                        Completed(PythonRuns(args[c].code, temp_file[c]).stdout,
                                  PythonRuns(args[c].code, temp_file[c]).stderr,
                                  PythonRuns(args[c].code, temp_file[c]).returncode,
                                  outcome[c].value.execution_time))
    /\ [][\A c \in Callers :
             Returned(c) /\ request[c] # NoRequest /\ request'[c] = NoRequest
                 /\ Flagged(args[c].code) =>
                     response'[c] = [status |-> 200, body |-> outcome[c].value,
                                     detail |-> {}]]_vars

\* The endpoint has answered with the output of a code the validator was
\* asked about and flagged.
C23_Witness ==
    \E c \in Callers :
        /\ validated.called
        /\ ~validated.is_safe
        /\ validated.code = Chars(FlaggedCode)
        /\ logs[c] # << >>
        /\ logs[c][Len(logs[c])].code = FlaggedCode
        /\ response[c].status = 200
        /\ response[c].body.success
        /\ response[c].body.output = "out\n"

\* C24: the sandbox persists nothing between calls: when a call of
\* execute_python_code has ended, no script is left on disk.
C24_NothingPersists ==
    \A c \in Callers :
        Done(c) /\ args[c].func = "execute_python_code" =>
            \A path \in DOMAIN fs : ~Exists(path)

\* C25: the log row the endpoint writes records the exit_code of the result
\* it returns.
C25_LogExitCode ==
    \A c \in Callers :
        response[c].status = 200 /\ logs[c] # << >> =>
            logs[c][Len(logs[c])].exit_code = response[c].body.exit_code

\* C26: in every result returned, success is true exactly when exit_code is
\* 0; a result of any path other than the child's completion (timeout,
\* spawn failure, unsupported language, caught exception) has success false
\* and an exit_code other than 0.
C26_SuccessIffExitZero ==
    \A c \in Callers :
        Returned(c) =>
            LET r == outcome[c].value IN
            /\ r.success = (r.exit_code = 0)
            /\ ~NaturalCompletion(c) => ~r.success /\ r.exit_code # 0

\* A child that ended with status 0 and text on stderr: a success.
C26_Witness ==
    \E c \in Callers :
        /\ Returned(c)
        /\ NaturalCompletion(c)
        /\ child[c].returncode = 0
        /\ child[c].stderr = "err"
        /\ outcome[c].value.exit_code = 0
        /\ outcome[c].value.success

\* The result was built by the except clause for the deadline: the
\* deadline's exception is the last one the call raised.
TimeoutPath(c) ==
    /\ Returned(c)
    /\ faults[c] # << >>
    /\ LastFault(c).exc.type = "TimeoutExpired"

TimeoutMessage(timeout) ==
    "Execution timed out after " \o ToString(timeout) \o " seconds"

C28_FixedOrder ==
    /\ [](\A c \in Callers :
             /\ child[c].state # "none" => child[c].script = args[c].code
             /\ pc[c] \in {"finally", "done"} =>
                    child[c].state # "running" /\ Child(c) \notin procs)
    /\ [][\A c \in Callers :
             Exists(temp_file[c]) /\ fs'[temp_file[c]] = Absent =>
                 child[c].state # "running" \/ ChildUnlink(c)]_vars

\* The child was killed at the deadline and the script it ran was deleted
\* afterwards.
C28_Witness ==
    \E c \in Callers :
        /\ Done(c)
        /\ Expired(c)
        /\ child[c].state = "killed"
        /\ child[c].script = args[c].code
        /\ temp_file[c] # None
        /\ ~Exists(temp_file[c])

\* The handler ran for the last request of c and has ended.
Handled(c) == response[c].status \in {200, 500}

\* C29: a request the handler ran for has exactly one log row, written
\* after the sandbox call returned and before the answer, whatever the
\* result; and the answer is 200 with the result the row was written from.
C29_OneLogPerRequest ==
    \A c \in Callers :
        /\ Busy(c) \/ Done(c) => logs[c] = << >>
        /\ Handled(c) =>
               /\ Len(logs[c]) = 1
               /\ response[c].status = 200
               /\ logs[c][1].output = response[c].body.output
               /\ logs[c][1].error = response[c].body.error
               /\ logs[c][1].execution_time = response[c].body.execution_time

\* C30: through the endpoint the sandbox is called with python or
\* javascript only; a request with another language is answered 422 by a
\* step that starts no call and changes no file and no process, and it has
\* no log row.
C30_LanguageValidated ==
    /\ [](\A c \in Callers :
             /\ Busy(c) \/ Done(c) =>
                    args[c].language \in {"python", "javascript"}
             /\ "language" \in response[c].detail =>
                    response[c].status = 422 /\ pc[c] = "idle"
                        /\ logs[c] = << >>)
    /\ [][\A c \in Callers :
             "language" \in response'[c].detail /\ response'[c] # response[c] =>
                 UNCHANGED <<callVars, envVars>>]_vars

\* A request with another language was rejected: nothing runs, no file
\* and no process exists, no row was written.
C30_Witness ==
    \E c \in Callers :
        /\ response[c].status = 422
        /\ response[c].detail = {"language"}
        /\ pc[c] = "idle"
        /\ logs[c] = << >>
        /\ procs = {}
        /\ \A path \in DOMAIN fs : ~Exists(path)

====
